---- MODULE Spec2Model ----
(***************************************************************************)
(* Insight-Flow backend: the relational store (users, projects,            *)
(* project_members, tasks), the service classes that guard it and the      *)
(* request handlers that call them.  Every request runs on its own         *)
(* session; a handler whose service method reads, then commits, is split   *)
(* at the commit so that other requests can run in between.                *)
(***************************************************************************)
EXTENDS Integers, FiniteSets, Sequences, TLC

\* ---------------------------------------------------------------- bounds
MaxUsers == 2
MaxProjects == 1
MaxRows == 3
MaxTasks == 1
MaxReqs == 2
MaxNotifications == 3
MaxTicks == 4
MaxSignups == 1

\* ------------------------------------------------------------- constants
NoId == 0
NoneStr == "None"

HTTP_200_OK == 200
HTTP_400_BAD_REQUEST == 400
HTTP_401_UNAUTHORIZED == 401
HTTP_403_FORBIDDEN == 403
HTTP_404_NOT_FOUND == 404
HTTP_422_UNPROCESSABLE_ENTITY == 422
HTTP_500_INTERNAL_SERVER_ERROR == 500

UserIds == 1..MaxUsers
ProjectIds == 1..MaxProjects
TaskIds == 1..MaxTasks
ReqIds == 1..MaxReqs
NotificationIds == 1..MaxNotifications

\* models/project.py MemberRole
MemberRole == {"owner", "admin", "member"}
\* schemas/project.py ProjectMemberBase.role : str (any string is accepted)
RoleInputs == MemberRole \cup {"guest"}

\* models/task.py TaskStatus
TaskStatus == {"todo", "in_progress", "done"}
\* schemas/task.py TaskStatusUpdate.status : str (any string is accepted)
StatusInputs == {"in_progress", "bogus"}

VARIABLES
    users,        \* table users: id -> row
    projects,     \* table projects: id -> row
    members,      \* table project_members: set of rows, each with its own id
    tasks,        \* table tasks: id -> row
    nextUser,     \* primary keys are never reused
    nextProject,
    nextRow,
    nextTask,
    reqs,         \* requests between their reads and their commit
    resp,         \* the response (or in-flight marker) produced by the last step
    cascaded,     \* history: <<task, project>> removed by a project deletion
    notifications,    \* table notifications: id -> row
    nextNotification,
    now,          \* the instant, in seconds since the first request
    tz,           \* the host's local time zone: seconds east of UTC
    held,         \* the token the client was last issued, with its issue
    bearer        \* the Authorization header of the last request

\* the notifications table and its key counter
inbox == <<notifications, nextNotification>>

\* the clock, the host's time zone and the tokens in the client's hands
session == <<now, tz, held, bearer>>

vars == <<users, projects, members, tasks, nextUser, nextProject, nextRow,
          nextTask, reqs, resp, cascaded, inbox, session>>

store == <<users, projects, members, tasks, nextUser, nextProject, nextRow, nextTask>>

\* ------------------------------------------------------------- responses
\* What a handler answers is a function of the store and of the request: the
\* <handler>_response operators below.  A request that is refused returns before
\* any write, so the handler's action is the request that is not refused.
OK == [status |-> HTTP_200_OK, detail |-> ""]
Refuse(status, detail) == [status |-> status, detail |-> detail]

NoData == [projects |-> {}, members |-> {}, tasks |-> {}]

Response(op, caller, p, u, t, answer, data) ==
    [op |-> op, caller |-> caller, project |-> p, user |-> u, task |-> t,
     notification |-> NoId,
     status |-> answer.status, detail |-> answer.detail, data |-> data]

\* the response of a notification handler
NotificationResponse(op, caller, n, answer) ==
    [Response(op, caller, NoId, caller, NoId, answer, NoData) EXCEPT !.notification = n]

\* the marker left by a step that answers no request yet
InFlight == Response("none", NoId, NoId, NoId, NoId, Refuse(NoId, ""), NoData)

Idle == [op |-> "idle", caller |-> NoId, project |-> NoId, user |-> NoId,
         role |-> NoneStr, row |-> NoId]

Request(op, caller, p, u, role, row) ==
    [op |-> op, caller |-> caller, project |-> p, user |-> u, role |-> role, row |-> row]

FreeSlots == {r \in ReqIds : reqs[r].op = "idle"}
FreeSlot == CHOOSE r \in FreeSlots : \A q \in FreeSlots : r <= q

\* membership rows that requests in flight will still insert
PendingInserts ==
    Cardinality({r \in ReqIds : reqs[r].op \in {"create_project", "add_project_member"}})
RowBudget == (nextRow - 1) + PendingInserts < MaxRows

\* ------------------------------------------------ ProjectService queries
get_project_by_id(p) == IF p \in DOMAIN projects THEN {projects[p]} ELSE {}

get_project_members(p) == {m \in members : m.project_id = p}

is_project_member(p, u) ==
    \E m \in members : m.project_id = p /\ m.user_id = u

\* is_project_admin without the test of the role: any membership row passes
is_project_admin_any_member(p, u) ==
    IF get_project_by_id(p) = {} THEN FALSE
    ELSE IF projects[p].owner_id = u THEN TRUE
    ELSE \E m \in members : m.project_id = p /\ m.user_id = u

is_project_admin(p, u) ==
    IF get_project_by_id(p) = {} THEN FALSE
    ELSE IF projects[p].owner_id = u THEN TRUE
    ELSE \E m \in members : /\ m.project_id = p
                            /\ m.user_id = u
                            /\ m.role \in {"owner", "admin"}

\* the failures of section 7 of the specification, by the detail the code gives
NotFoundDetails == {"Project not found", "Member not found", "Task not found",
                    "Assignee not found", "User not found", "Notification not found"}
ForbiddenDetails == {"Only project owners and admins can update projects",
                     "Only project owners can delete projects",
                     "Only project owners and admins can add members",
                     "Only project owners and admins can remove members",
                     "Only project owners can change member roles",
                     "Only task creator or assignee can update task",
                     "Only task creator or assignee can update task status",
                     "Only task creator can assign task",
                     "Only task creator can delete task",
                     "Not a member of this project",
                     "Cannot create notifications for other users"}
ConflictDetails == {"User is already a project member", "Cannot remove project owner",
                    "Cannot change owner's role", "Project creation failed",
                    "Failed to add project member", "Email already registered",
                    "Google account already linked", "User creation failed",
                    "User update failed"}

InvalidArgumentDetails == {"Invalid task status"}

\* ---------------------------------------------------------------- tokens
\* utils/auth.py SECRET_KEY, and the key of somebody else
SECRET_KEY == "SECRET_KEY"
OtherKey == "other-key"

\* routers/auth.py login, refresh_token: timedelta(minutes=30), in seconds
access_token_expires == 1800
\* the expires_in answered by login and by refresh_token
expires_in == 1800
\* utils/auth.py create_access_token without expires_delta: timedelta(minutes=15)
default_expires == 900
\* no expires_delta (None)
NoDelta == 0

\* the clock advances by a quarter of an hour at a time
Quarter == default_expires
LastInstant == MaxTicks * Quarter

\* the "sub" claim: the str() of a user's id, another text, or no claim at all
Sub(u) == [kind |-> "uuid", id |-> u]
TextSub == [kind |-> "text", id |-> NoId]
NoSub == [kind |-> "absent", id |-> NoId]

\* a bearer token: a signed JWT, a string that is no JWT, or no header at all
Jwt(key, sub, exp) == [form |-> "jwt", key |-> key, sub |-> sub, exp |-> exp]
Garbage == [form |-> "garbage", key |-> NoneStr, sub |-> NoSub, exp |-> 0]
NoToken == [form |-> "none", key |-> NoneStr, sub |-> NoSub, exp |-> 0]

\* the client holds no token yet
NoHeld == [token |-> NoToken, issued_at |-> 0, expires_in |-> 0]

\* the hosts the backend runs on: one hour west of UTC, UTC, one hour east
HostZones == {0 - 3600, 0, 3600}
\* the zone of every specification but SpecAuth
UTC == 0

\* datetime.utcnow(): the wall clock of UTC at instant t, with no zone attached
utcnow(t) == t
\* datetime.timestamp() of a naive datetime: the wall clock is read as local time
naive_timestamp(wall, zone) == wall - zone
\* datetime.now(timezone.utc).timestamp(): an aware datetime converts exactly
aware_timestamp(t) == t

\* utils/auth.py create_access_token, called at instant t on a host in zone
create_access_token(sub, expires_delta, t, zone) ==
    Jwt(SECRET_KEY, sub, IF expires_delta # NoDelta
                         THEN naive_timestamp(utcnow(t) + expires_delta, zone)
                         ELSE aware_timestamp(t + default_expires))

\* jwt.decode(token, SECRET_KEY, algorithms=[ALGORITHM]) at instant t
jwt_decode(token, t) ==
    /\ token.form = "jwt"
    /\ token.key = SECRET_KEY
    /\ ~(token.exp < t)

\* utils/auth.py verify_token: TRUE when the claims are returned
verify_token(token, t) == jwt_decode(token, t)

\* ------------------------------------------------------------------ Init
\* the state after start-up on a host of one of the zones
InitIn(zones) ==
    /\ users = [u \in UserIds |-> [email |-> u, google_id |-> NoId, is_active |-> TRUE]]
    /\ projects = << >>
    /\ members = {}
    /\ tasks = << >>
    /\ nextUser = MaxUsers + 1
    /\ nextProject = 1
    /\ nextRow = 1
    /\ nextTask = 1
    /\ reqs = [r \in ReqIds |-> Idle]
    /\ resp = InFlight
    /\ cascaded = {}
    /\ notifications = << >>
    /\ nextNotification = 1
    /\ now = 0
    /\ tz \in zones
    /\ held = NoHeld
    /\ bearer = NoToken

Init == InitIn({UTC})

\* ------------------------------------------------ ProjectService, writes
\* Each handler is one action (the whole request).  The handlers that read,
\* then insert, update or delete a membership row also come split in two,
\* <handler>_read and <handler>_commit, for requests that overlap.

project_row(data, owner) ==
    [name |-> data.name, description |-> data.description,
     owner_id |-> owner, is_active |-> TRUE]

with_project(p, row) ==
    [q \in DOMAIN projects \cup {p} |-> IF q = p THEN row ELSE projects[q]]

\* the role a new or re-graded membership row is stored with
stored_role(role) == role

member_row(id, p, u, role) ==
    [id |-> id, project_id |-> p, user_id |-> u, role |-> stored_role(role)]

\* create_project, the membership row seeded for the owner
owner_member(id, p, owner) == member_row(id, p, owner, "owner")

\* the foreign keys of a project_members row
member_keys_exist(p, u) == p \in DOMAIN projects /\ u \in DOMAIN users

\* POST /projects
create_project(caller, data) ==
    /\ caller \in DOMAIN users
    /\ nextProject <= MaxProjects
    /\ nextRow <= MaxRows
    /\ projects' = with_project(nextProject, project_row(data, caller))
    /\ nextProject' = nextProject + 1
    /\ members' = members \cup {owner_member(nextRow, nextProject, caller)}
    /\ nextRow' = nextRow + 1
    /\ resp' = Response("create_project", caller, nextProject, caller, NoId, OK, NoData)
    /\ UNCHANGED <<users, tasks, nextUser, nextTask, reqs, cascaded, inbox, session>>

\* POST /projects, first commit: the projects row
create_project_commit_project(caller, data) ==
    /\ caller \in DOMAIN users
    /\ nextProject <= MaxProjects
    /\ FreeSlots # {}
    /\ RowBudget
    /\ projects' = with_project(nextProject, project_row(data, caller))
    /\ nextProject' = nextProject + 1
    /\ reqs' = [reqs EXCEPT ![FreeSlot] =
                  Request("create_project", caller, nextProject, caller, "owner", NoId)]
    /\ resp' = InFlight
    /\ UNCHANGED <<users, members, tasks, nextUser, nextRow, nextTask, cascaded, inbox, session>>

\* POST /projects, second commit: the owner's project_members row
create_project_commit_member(r) ==
    /\ reqs[r].op = "create_project"
    /\ reqs' = [reqs EXCEPT ![r] = Idle]
    /\ LET Re(answer) ==
             Response("create_project", reqs[r].caller, reqs[r].project, reqs[r].user,
                      NoId, answer, NoData)
       IN IF member_keys_exist(reqs[r].project, reqs[r].user)
          THEN /\ members' = members \cup
                               {owner_member(nextRow, reqs[r].project, reqs[r].user)}
               /\ nextRow' = nextRow + 1
               /\ resp' = Re(OK)
          ELSE /\ resp' = Re(Refuse(HTTP_400_BAD_REQUEST, "Project creation failed"))
               /\ UNCHANGED <<members, nextRow>>
    /\ UNCHANGED <<users, projects, tasks, nextUser, nextProject, nextTask, cascaded, inbox, session>>

\* a ProjectUpdate written over the row: a field that is None resets the column
apply_project_update_overwrite(project, data) ==
    [project EXCEPT
       !.name = data.name,
       !.description = data.description,
       !.is_active = data.is_active # "False"]

\* ProjectUpdate applied field by field: a field that is None is left alone
apply_project_update(project, data) ==
    [project EXCEPT
       !.name = IF data.name # NoneStr THEN data.name ELSE @,
       !.description = IF data.description # NoneStr THEN data.description ELSE @,
       !.is_active = IF data.is_active # NoneStr THEN data.is_active = "True" ELSE @]

update_project_response(caller, p) ==
    IF get_project_by_id(p) = {}
    THEN Refuse(HTTP_400_BAD_REQUEST, "Project not found")
    ELSE IF ~is_project_admin(p, caller)
    THEN Refuse(HTTP_400_BAD_REQUEST, "Only project owners and admins can update projects")
    ELSE OK

\* PUT /projects/{project_id}
update_project(caller, p, data) ==
    /\ caller \in DOMAIN users
    /\ update_project_response(caller, p) = OK
    /\ projects' = [projects EXCEPT ![p] = apply_project_update(@, data)]
    /\ resp' = Response("update_project", caller, p, NoId, NoId, OK, NoData)
    /\ UNCHANGED <<users, members, tasks, nextUser, nextProject, nextRow, nextTask,
                   reqs, cascaded, inbox, session>>

\* the tasks left once the projects ps and their cascade are deleted
tasks_outside(ps) == [t \in {x \in DOMAIN tasks : tasks[x].project_id \notin ps} |-> tasks[t]]
\* the tasks that go with the projects ps
cascade_of(ps) ==
    {<<t, tasks[t].project_id>> : t \in {x \in DOMAIN tasks : tasks[x].project_id \in ps}}

\* Project.members and Project.tasks, cascade="all, delete-orphan"
members_after_delete_project(p) == {m \in members : m.project_id # p}
\* a deletion that leaves the project's tasks behind
tasks_kept_after_delete_project(p) == tasks
tasks_after_delete_project(p) == tasks_outside({p})

\* delete_project gated as update_project is: owner or admin
delete_project_response_by_admin(caller, p) ==
    IF get_project_by_id(p) = {}
    THEN Refuse(HTTP_400_BAD_REQUEST, "Project not found")
    ELSE IF ~is_project_admin(p, caller)
    THEN Refuse(HTTP_400_BAD_REQUEST, "Only project owners can delete projects")
    ELSE OK

delete_project_response(caller, p) ==
    IF get_project_by_id(p) = {}
    THEN Refuse(HTTP_400_BAD_REQUEST, "Project not found")
    ELSE IF projects[p].owner_id # caller
    THEN Refuse(HTTP_400_BAD_REQUEST, "Only project owners can delete projects")
    ELSE OK

\* DELETE /projects/{project_id}
delete_project(caller, p) ==
    /\ caller \in DOMAIN users
    /\ delete_project_response(caller, p) = OK
    /\ projects' = [q \in DOMAIN projects \ {p} |-> projects[q]]
    /\ members' = members_after_delete_project(p)
    /\ tasks' = tasks_after_delete_project(p)
    /\ cascaded' = cascaded \cup cascade_of({p})
    /\ resp' = Response("delete_project", caller, p, NoId, NoId, OK, NoData)
    /\ UNCHANGED <<users, nextUser, nextProject, nextRow, nextTask, reqs, inbox, session>>

\* the membership rows of user u in project p
existing_member(p, u) == {m \in members : m.project_id = p /\ m.user_id = u}

\* add_project_member up to the insert
add_project_member_response(caller, p, u) ==
    IF get_project_by_id(p) = {}
    THEN Refuse(HTTP_400_BAD_REQUEST, "Project not found")
    ELSE IF ~is_project_admin(p, caller)
    THEN Refuse(HTTP_400_BAD_REQUEST, "Only project owners and admins can add members")
    ELSE IF existing_member(p, u) # {}
    THEN Refuse(HTTP_400_BAD_REQUEST, "User is already a project member")
    ELSE OK

\* add_project_member, the insert and its commit
add_project_member_insert(caller, p, u, role) ==
    LET Re(answer) == Response("add_project_member", caller, p, u, NoId, answer, NoData)
    IN /\ IF member_keys_exist(p, u)
          THEN /\ nextRow <= MaxRows
               /\ members' = members \cup {member_row(nextRow, p, u, role)}
               /\ nextRow' = nextRow + 1
               /\ resp' = Re(OK)
          ELSE /\ resp' = Re(Refuse(HTTP_400_BAD_REQUEST, "Failed to add project member"))
               /\ UNCHANGED <<members, nextRow>>
       /\ UNCHANGED <<users, projects, tasks, nextUser, nextProject, nextTask, cascaded, inbox, session>>

\* POST /projects/{project_id}/members
add_project_member(caller, p, u, role) ==
    /\ caller \in DOMAIN users
    /\ add_project_member_response(caller, p, u) = OK
    /\ add_project_member_insert(caller, p, u, role)
    /\ UNCHANGED reqs

add_project_member_read(caller, p, u, role) ==
    /\ caller \in DOMAIN users
    /\ add_project_member_response(caller, p, u) = OK
    /\ FreeSlots # {}
    /\ RowBudget
    /\ reqs' = [reqs EXCEPT ![FreeSlot] =
                  Request("add_project_member", caller, p, u, role, NoId)]
    /\ resp' = InFlight
    /\ UNCHANGED <<store, cascaded, inbox, session>>

add_project_member_commit(r) ==
    /\ reqs[r].op = "add_project_member"
    /\ reqs' = [reqs EXCEPT ![r] = Idle]
    /\ add_project_member_insert(reqs[r].caller, reqs[r].project, reqs[r].user, reqs[r].role)

\* remove_project_member without the protection of the owner
remove_project_member_response_unprotected(caller, p, u) ==
    IF get_project_by_id(p) = {}
    THEN Refuse(HTTP_400_BAD_REQUEST, "Project not found")
    ELSE IF ~is_project_admin(p, caller)
    THEN Refuse(HTTP_400_BAD_REQUEST, "Only project owners and admins can remove members")
    ELSE IF existing_member(p, u) = {}
    THEN Refuse(HTTP_400_BAD_REQUEST, "Member not found")
    ELSE OK

\* remove_project_member up to the delete
remove_project_member_response(caller, p, u) ==
    IF get_project_by_id(p) = {}
    THEN Refuse(HTTP_400_BAD_REQUEST, "Project not found")
    ELSE IF ~is_project_admin(p, caller)
    THEN Refuse(HTTP_400_BAD_REQUEST, "Only project owners and admins can remove members")
    ELSE IF projects[p].owner_id = u
    THEN Refuse(HTTP_400_BAD_REQUEST, "Cannot remove project owner")
    ELSE IF existing_member(p, u) = {}
    THEN Refuse(HTTP_400_BAD_REQUEST, "Member not found")
    ELSE OK

\* remove_project_member, the delete and its commit
\* (a row already gone only draws a warning from the session)
remove_project_member_delete(caller, p, u, row) ==
    /\ members' = {m \in members : m.id # row}
    /\ resp' = Response("remove_project_member", caller, p, u, NoId, OK, NoData)
    /\ UNCHANGED <<users, projects, tasks, nextUser, nextProject, nextRow, nextTask,
                   cascaded, inbox, session>>

\* DELETE /projects/{project_id}/members/{member_user_id}
remove_project_member(caller, p, u) ==
    /\ caller \in DOMAIN users
    /\ remove_project_member_response(caller, p, u) = OK
    /\ \E m \in existing_member(p, u) : remove_project_member_delete(caller, p, u, m.id)
    /\ UNCHANGED reqs

remove_project_member_read(caller, p, u) ==
    /\ caller \in DOMAIN users
    /\ remove_project_member_response(caller, p, u) = OK
    /\ FreeSlots # {}
    /\ \E m \in existing_member(p, u) :
          reqs' = [reqs EXCEPT ![FreeSlot] =
                     Request("remove_project_member", caller, p, u, NoneStr, m.id)]
    /\ resp' = InFlight
    /\ UNCHANGED <<store, cascaded, inbox, session>>

remove_project_member_commit(r) ==
    /\ reqs[r].op = "remove_project_member"
    /\ reqs' = [reqs EXCEPT ![r] = Idle]
    /\ remove_project_member_delete(reqs[r].caller, reqs[r].project, reqs[r].user,
                                    reqs[r].row)

\* update_member_role up to the update
update_member_role_response(caller, p, u) ==
    IF get_project_by_id(p) = {}
    THEN Refuse(HTTP_400_BAD_REQUEST, "Project not found")
    ELSE IF projects[p].owner_id # caller
    THEN Refuse(HTTP_400_BAD_REQUEST, "Only project owners can change member roles")
    ELSE IF projects[p].owner_id = u
    THEN Refuse(HTTP_400_BAD_REQUEST, "Cannot change owner's role")
    ELSE IF existing_member(p, u) = {}
    THEN Refuse(HTTP_400_BAD_REQUEST, "Member not found")
    ELSE OK

\* update_member_role, the update and its commit
\* (an UPDATE that matches no row raises StaleDataError, which no handler catches)
update_member_role_update(caller, p, u, role, row) ==
    LET Re(answer) == Response("update_member_role", caller, p, u, NoId, answer, NoData)
    IN /\ IF \E m \in members : m.id = row
          THEN /\ members' = {IF m.id = row THEN [m EXCEPT !.role = stored_role(role)]
                                            ELSE m : m \in members}
               /\ resp' = Re(OK)
          ELSE /\ resp' = Re(Refuse(HTTP_500_INTERNAL_SERVER_ERROR, "StaleDataError"))
               /\ UNCHANGED members
       /\ UNCHANGED <<users, projects, tasks, nextUser, nextProject, nextRow, nextTask,
                      cascaded, inbox, session>>

\* PUT /projects/{project_id}/members/{member_user_id}/role
update_member_role(caller, p, u, role) ==
    /\ caller \in DOMAIN users
    /\ update_member_role_response(caller, p, u) = OK
    /\ \E m \in existing_member(p, u) : update_member_role_update(caller, p, u, role, m.id)
    /\ UNCHANGED reqs

update_member_role_read(caller, p, u, role) ==
    /\ caller \in DOMAIN users
    /\ update_member_role_response(caller, p, u) = OK
    /\ FreeSlots # {}
    /\ \E m \in existing_member(p, u) :
          reqs' = [reqs EXCEPT ![FreeSlot] =
                     Request("update_member_role", caller, p, u, role, m.id)]
    /\ resp' = InFlight
    /\ UNCHANGED <<store, cascaded, inbox, session>>

update_member_role_commit(r) ==
    /\ reqs[r].op = "update_member_role"
    /\ reqs' = [reqs EXCEPT ![r] = Idle]
    /\ update_member_role_update(reqs[r].caller, reqs[r].project, reqs[r].user,
                                 reqs[r].role, reqs[r].row)

\* ---------------------------------------------------------- UserService

\* projects that go with their owner (User.owned_projects, cascade delete)
owned_projects(u) == {p \in DOMAIN projects : projects[p].owner_id = u}

\* a created_by column that may be NULL: no task keeps the user
orphaned_created_tasks_nullable(u) == {}

\* tasks that keep a NOT NULL created_by reference to u after the cascade
orphaned_created_tasks(u) ==
    {t \in DOMAIN tasks : tasks[t].created_by = u /\ tasks[t].project_id \notin owned_projects(u)}

\* User.notifications, cascade="all, delete-orphan"
notifications_after_delete_user(u) ==
    [n \in {x \in DOMAIN notifications : notifications[x].user_id # u} |-> notifications[n]]

\* the forms of one UUID that uuid.UUID() parses: lower-case with hyphens,
\* upper-case, 32 hex digits, in braces, with the urn:uuid: prefix
UuidForms == {"canonical", "upper", "hex", "braces", "urn"}
\* a path parameter that uuid.UUID() rejects
InvalidId == [id |-> NoId, form |-> "invalid"]

\* str(uuid): always the lower-case form with hyphens
str(u) == [id |-> u, form |-> "canonical"]
\* uuid.UUID(text): the same id for every form
UUID(text) == text.id

delete_user_response(caller, user_id) ==
    IF user_id.form \notin UuidForms
    THEN Refuse(HTTP_422_UNPROCESSABLE_ENTITY, "Invalid user ID format")
    ELSE IF UUID(user_id) \notin DOMAIN users
    THEN Refuse(HTTP_404_NOT_FOUND, "User not found")
    ELSE IF str(caller) = user_id
    THEN Refuse(HTTP_400_BAD_REQUEST, "Cannot delete your own account")
    ELSE IF orphaned_created_tasks(UUID(user_id)) # {}
    THEN Refuse(HTTP_400_BAD_REQUEST, "Cannot delete user - user has associated data")
    ELSE OK

\* DELETE /users/{user_id}
delete_user(caller, user_id) ==
    /\ caller \in DOMAIN users
    /\ delete_user_response(caller, user_id) = OK
    /\ LET u == UUID(user_id)
           kept == tasks_outside(owned_projects(u))
       IN /\ users' = [v \in DOMAIN users \ {u} |-> users[v]]
          /\ projects' = [q \in DOMAIN projects \ owned_projects(u) |-> projects[q]]
          /\ members' = {m \in members : /\ m.user_id # u
                                         /\ m.project_id \notin owned_projects(u)}
          /\ tasks' = [t \in DOMAIN kept |->
                         IF kept[t].assignee_id = u
                         THEN [kept[t] EXCEPT !.assignee_id = NoId]
                         ELSE kept[t]]
          /\ cascaded' = cascaded \cup cascade_of(owned_projects(u))
          /\ notifications' = notifications_after_delete_user(u)
          /\ resp' = Response("delete_user", caller, NoId, u, NoId, OK, NoData)
          /\ UNCHANGED <<nextUser, nextProject, nextRow, nextTask, nextNotification, reqs, session>>

\* the e-mail addresses and the Google ids a request can carry (a number stands
\* for the string): the registered emails and a new one, a Google id for every
\* sign-up; NoId as google_id is NULL, a password account
EmailInputs == 1..(MaxUsers + 1)
GoogleIds == 1..MaxSignups

get_user_by_email(email) == {v \in DOMAIN users : users[v].email = email}

get_user_by_google_id(google_id) == {v \in DOMAIN users : users[v].google_id = google_id}

\* a users table without unique indexes: no commit is ever refused
violated_never(table) == {}

\* models/user.py: email unique=True, google_id unique=True.  The columns whose
\* unique index the table would break at commit (NULLs never collide)
UniqueColumns == {"email", "google_id"}
violated(table) ==
    {c \in UniqueColumns : \E v \in DOMAIN table, w \in DOMAIN table :
                               v # w /\ table[v][c] # NoId /\ table[v][c] = table[w][c]}

\* str(e) of sqlalchemy's IntegrityError: the driver's message, which names the
\* column of the broken index, followed by the statement, which names the
\* columns it writes
InsertColumns == {"id", "created_at", "updated_at", "email", "name", "hashed_password",
                  "avatar_url", "google_id", "is_active"}
IntegrityError_str(columns, statement) == columns \cup statement

user_row(data) ==
    [email |-> data.email, google_id |-> data.google_id, is_active |-> TRUE]

with_user(u, row) ==
    [v \in DOMAIN users \cup {u} |-> IF v = u THEN row ELSE users[v]]

\* UserService.create_user: add, commit, except IntegrityError
create_user_response(data) ==
    LET e == violated(with_user(nextUser, user_row(data)))
    IN IF e = {} THEN OK
       ELSE IF "email" \in IntegrityError_str(e, InsertColumns)
       THEN Refuse(HTTP_400_BAD_REQUEST, "Email already registered")
       ELSE IF "google_id" \in IntegrityError_str(e, InsertColumns)
       THEN Refuse(HTTP_400_BAD_REQUEST, "Google account already linked")
       ELSE Refuse(HTTP_400_BAD_REQUEST, "User creation failed")

create_user_commit(op, data) ==
    /\ nextUser <= MaxUsers + MaxSignups
    /\ users' = with_user(nextUser, user_row(data))
    /\ nextUser' = nextUser + 1
    /\ resp' = Response(op, NoId, NoId, nextUser, NoId, OK, NoData)
    /\ UNCHANGED <<projects, members, tasks, nextProject, nextRow, nextTask,
                   reqs, cascaded, inbox, session>>

\* UserService.create_user, called after a check that another request has
\* since made stale
create_user(data) ==
    /\ create_user_response(data) = OK
    /\ create_user_commit("create_user", data)

\* POST /auth/register
register_response(data) ==
    IF get_user_by_email(data.email) # {}
    THEN Refuse(HTTP_400_BAD_REQUEST, "Email already registered")
    ELSE IF ~data.password /\ data.google_id = NoId
    THEN Refuse(HTTP_400_BAD_REQUEST, "Either password or Google ID is required")
    ELSE create_user_response(data)

register(data) ==
    /\ register_response(data) = OK
    /\ create_user_commit("register", data)

\* UserService.create_or_update_google_user: the commits of its first two
\* branches are outside any try
create_or_update_google_user_table(google_id, email) ==
    IF get_user_by_google_id(google_id) # {}
    THEN [v \in DOMAIN users |-> IF v \in get_user_by_google_id(google_id)
                                 THEN [users[v] EXCEPT !.email = email]
                                 ELSE users[v]]
    ELSE IF get_user_by_email(email) # {}
    THEN [v \in DOMAIN users |-> IF v \in get_user_by_email(email)
                                 THEN [users[v] EXCEPT !.google_id = google_id]
                                 ELSE users[v]]
    ELSE with_user(nextUser, user_row([email |-> email, google_id |-> google_id]))

create_or_update_google_user_response(google_id, email) ==
    IF get_user_by_google_id(google_id) # {} \/ get_user_by_email(email) # {}
    THEN IF violated(create_or_update_google_user_table(google_id, email)) = {}
         THEN OK
         ELSE Refuse(HTTP_500_INTERNAL_SERVER_ERROR, "IntegrityError")
    ELSE create_user_response([email |-> email, google_id |-> google_id])

create_or_update_google_user(google_id, email) ==
    /\ create_or_update_google_user_response(google_id, email) = OK
    /\ users' = create_or_update_google_user_table(google_id, email)
    /\ nextUser' = IF DOMAIN users' = DOMAIN users THEN nextUser ELSE nextUser + 1
    /\ nextUser' <= MaxUsers + MaxSignups + 1
    /\ resp' = Response("create_or_update_google_user", NoId, NoId,
                        CHOOSE v \in DOMAIN users' : users'[v].google_id = google_id,
                        NoId, OK, NoData)
    /\ UNCHANGED <<projects, members, tasks, nextProject, nextRow, nextTask,
                   reqs, cascaded, inbox, session>>

\* ------------------------------------------------- project read handlers
read_project_response(caller, p) ==
    IF ~is_project_member(p, caller)
    THEN Refuse(HTTP_403_FORBIDDEN, "Not a member of this project")
    ELSE IF get_project_by_id(p) = {}
    THEN Refuse(HTTP_404_NOT_FOUND, "Project not found")
    ELSE OK

\* a handler that reads: the store is left alone
Reads == UNCHANGED <<store, reqs, cascaded, inbox, session>>

\* GET /projects/{project_id}
read_project(caller, p) ==
    /\ caller \in DOMAIN users
    /\ read_project_response(caller, p) = OK
    /\ resp' = Response("read_project", caller, p, NoId, NoId, OK,
                        [projects |-> {p}, members |-> get_project_members(p), tasks |-> {}])
    /\ Reads

read_project_members_response(caller, p) ==
    IF ~is_project_member(p, caller)
    THEN Refuse(HTTP_403_FORBIDDEN, "Not a member of this project")
    ELSE OK

\* GET /projects/{project_id}/members
read_project_members(caller, p) ==
    /\ caller \in DOMAIN users
    /\ read_project_members_response(caller, p) = OK
    /\ resp' = Response("read_project_members", caller, p, NoId, NoId, OK,
                        [projects |-> {}, members |-> get_project_members(p), tasks |-> {}])
    /\ Reads

\* ----------------------------------------------------------- TaskService
get_task_by_id(t) == IF t \in DOMAIN tasks THEN {tasks[t]} ELSE {}

\* TaskService.get_project_tasks
project_tasks(p) == {t \in DOMAIN tasks : tasks[t].project_id = p}

\* POST /tasks without the router's membership check
create_task_response_unchecked(caller, data) ==
    IF get_project_by_id(data.project_id) = {}
    THEN Refuse(HTTP_400_BAD_REQUEST, "Project not found")
    ELSE IF data.assignee_id # NoId /\ data.assignee_id \notin DOMAIN users
    THEN Refuse(HTTP_400_BAD_REQUEST, "Assignee not found")
    ELSE OK

create_task_response(caller, data) ==
    IF ~is_project_member(data.project_id, caller)
    THEN Refuse(HTTP_403_FORBIDDEN, "Not a member of this project")
    ELSE IF get_project_by_id(data.project_id) = {}
    THEN Refuse(HTTP_400_BAD_REQUEST, "Project not found")
    ELSE IF data.assignee_id # NoId /\ data.assignee_id \notin DOMAIN users
    THEN Refuse(HTTP_400_BAD_REQUEST, "Assignee not found")
    ELSE OK

task_row(data, creator) ==
    [title |-> data.title, status |-> "todo", project_id |-> data.project_id,
     assignee_id |-> data.assignee_id, created_by |-> creator]

\* POST /tasks
create_task(caller, data) ==
    /\ caller \in DOMAIN users
    /\ create_task_response(caller, data) = OK
    /\ nextTask <= MaxTasks
    /\ tasks' = [t \in DOMAIN tasks \cup {nextTask} |->
                   IF t = nextTask THEN task_row(data, caller) ELSE tasks[t]]
    /\ nextTask' = nextTask + 1
    /\ resp' = Response("create_task", caller, data.project_id, data.assignee_id,
                        nextTask, OK, NoData)
    /\ UNCHANGED <<users, projects, members, nextUser, nextProject, nextRow, reqs,
                   cascaded, inbox, session>>

read_task_response(caller, t) ==
    IF get_task_by_id(t) = {}
    THEN Refuse(HTTP_404_NOT_FOUND, "Task not found")
    ELSE IF ~is_project_member(tasks[t].project_id, caller)
    THEN Refuse(HTTP_403_FORBIDDEN, "Not a member of this project")
    ELSE OK

\* GET /tasks/{task_id}
read_task(caller, t) ==
    /\ caller \in DOMAIN users
    /\ read_task_response(caller, t) = OK
    /\ resp' = Response("read_task", caller, tasks[t].project_id, NoId, t, OK,
                        [projects |-> {tasks[t].project_id}, members |-> {}, tasks |-> {t}])
    /\ Reads

get_project_tasks_response(caller, p) ==
    IF ~is_project_member(p, caller)
    THEN Refuse(HTTP_403_FORBIDDEN, "Not a member of this project")
    ELSE OK

\* GET /tasks/project/{project_id}
get_project_tasks(caller, p) ==
    /\ caller \in DOMAIN users
    /\ get_project_tasks_response(caller, p) = OK
    /\ resp' = Response("get_project_tasks", caller, p, NoId, NoId, OK,
                        [projects |-> {}, members |-> {}, tasks |-> project_tasks(p)])
    /\ Reads

\* TaskService.get_tasks: each filter applies when it is given (skip 0, limit 100)
get_tasks(project_id, assignee_id, status) ==
    {t \in DOMAIN tasks :
        /\ project_id # NoId => tasks[t].project_id = project_id
        /\ assignee_id # NoId => tasks[t].assignee_id = assignee_id
        /\ status # NoneStr => tasks[t].status = status}

\* TaskService.get_user_tasks
get_user_tasks(u) ==
    {t \in DOMAIN tasks : tasks[t].assignee_id = u \/ tasks[t].created_by = u}

\* GET /tasks: the parameter named status hides fastapi's status module, so the
\* handler's answer to a value TaskStatus() rejects is an AttributeError
read_tasks_response(caller, query) ==
    IF query.status # NoneStr /\ query.status \notin TaskStatus
    THEN Refuse(HTTP_500_INTERNAL_SERVER_ERROR, "Internal Server Error")
    ELSE OK

read_tasks(caller, query) ==
    /\ caller \in DOMAIN users
    /\ read_tasks_response(caller, query) = OK
    /\ resp' = Response("read_tasks", caller, query.project_id, query.assignee_id, NoId, OK,
                        [projects |-> {}, members |-> {},
                         tasks |-> IF query.my_tasks
                                   THEN get_user_tasks(caller)
                                   ELSE get_tasks(query.project_id, query.assignee_id,
                                                  query.status)])
    /\ Reads

\* GET /tasks/my/tasks
get_my_tasks(caller) ==
    /\ caller \in DOMAIN users
    /\ resp' = Response("get_my_tasks", caller, NoId, NoId, NoId, OK,
                        [projects |-> {}, members |-> {}, tasks |-> get_user_tasks(caller)])
    /\ Reads

\* TaskUpdate applied field by field: a field that is None is left alone
apply_task_update(task, data) ==
    [task EXCEPT
       !.title = IF data.title # NoneStr THEN data.title ELSE @,
       !.status = IF data.status # NoneStr THEN data.status ELSE @,
       !.assignee_id = IF data.assignee_id # NoId THEN data.assignee_id ELSE @]

\* update_task without the decoding of the status
update_task_response_any_status(caller, t, data) ==
    IF get_task_by_id(t) = {}
    THEN Refuse(HTTP_400_BAD_REQUEST, "Task not found")
    ELSE IF ~is_project_member(tasks[t].project_id, caller)
    THEN Refuse(HTTP_403_FORBIDDEN, "Not a member of this project")
    ELSE IF tasks[t].created_by # caller /\ tasks[t].assignee_id # caller
    THEN Refuse(HTTP_400_BAD_REQUEST, "Only task creator or assignee can update task")
    ELSE IF data.assignee_id # NoId /\ data.assignee_id \notin DOMAIN users
    THEN Refuse(HTTP_400_BAD_REQUEST, "Assignee not found")
    ELSE OK

update_task_response(caller, t, data) ==
    IF get_task_by_id(t) = {}
    THEN Refuse(HTTP_400_BAD_REQUEST, "Task not found")
    ELSE IF ~is_project_member(tasks[t].project_id, caller)
    THEN Refuse(HTTP_403_FORBIDDEN, "Not a member of this project")
    ELSE IF tasks[t].created_by # caller /\ tasks[t].assignee_id # caller
    THEN Refuse(HTTP_400_BAD_REQUEST, "Only task creator or assignee can update task")
    ELSE IF data.assignee_id # NoId /\ data.assignee_id \notin DOMAIN users
    THEN Refuse(HTTP_400_BAD_REQUEST, "Assignee not found")
    ELSE IF data.status # NoneStr /\ data.status \notin TaskStatus
    THEN Refuse(HTTP_400_BAD_REQUEST, "Invalid task status")
    ELSE OK

\* PUT /tasks/{task_id}
update_task(caller, t, data) ==
    /\ caller \in DOMAIN users
    /\ update_task_response(caller, t, data) = OK
    /\ tasks' = [tasks EXCEPT ![t] = apply_task_update(@, data)]
    /\ resp' = Response("update_task", caller, tasks[t].project_id, data.assignee_id, t,
                        OK, NoData)
    /\ UNCHANGED <<users, projects, members, nextUser, nextProject, nextRow, nextTask,
                   reqs, cascaded, inbox, session>>

\* PUT /tasks/{task_id} on its request session. The handler assigns title,
\* (description,) status, assignee_id in this order to the task object of the
\* session; TaskStatus() raises at the status, after the title was assigned.
NoChanges == [title |-> NoneStr, status |-> NoneStr, assignee_id |-> NoId]

\* the attributes assigned on the session's task object when update_task
\* reaches db.commit() or raises
assigned_before_exit(caller, t, data) ==
    IF update_task_response_any_status(caller, t, data) # OK THEN NoChanges
    ELSE IF update_task_response(caller, t, data) # OK
    THEN [NoChanges EXCEPT !.title = data.title]
    ELSE [title |-> data.title, status |-> data.status, assignee_id |-> data.assignee_id]

\* a session that commits what is pending when the request ends
get_db_committing(task, dirty) == apply_task_update(task, dirty)

\* get_db: finally db.close(), no commit: what the session holds uncommitted
\* is rolled back, the stored row stays as it is
get_db(task, dirty) == task

\* the handler up to db.commit() or to the raise
update_task_assign(caller, t, data) ==
    /\ caller \in DOMAIN users
    /\ FreeSlots # {}
    /\ reqs' = [reqs EXCEPT ![FreeSlot] =
                  [op |-> "update_task", caller |-> caller,
                   project |-> IF get_task_by_id(t) = {} THEN NoId ELSE tasks[t].project_id,
                   user |-> data.assignee_id, role |-> NoneStr, row |-> NoId, task |-> t,
                   dirty |-> assigned_before_exit(caller, t, data),
                   raised |-> update_task_response(caller, t, data)]]
    /\ resp' = InFlight
    /\ UNCHANGED <<store, cascaded, inbox, session>>

\* db.commit(), db.refresh(task), return
update_task_commit(r) ==
    /\ reqs[r].op = "update_task"
    /\ reqs[r].raised = OK
    /\ tasks' = [tasks EXCEPT ![reqs[r].task] = apply_task_update(@, reqs[r].dirty)]
    /\ reqs' = [reqs EXCEPT ![r] = Idle]
    /\ resp' = Response("update_task", reqs[r].caller, reqs[r].project, reqs[r].user,
                        reqs[r].task, OK, NoData)
    /\ UNCHANGED <<users, projects, members, nextUser, nextProject, nextRow, nextTask,
                   cascaded, inbox, session>>

\* the HTTPException leaves the handler and get_db ends the session
update_task_raise(r) ==
    /\ reqs[r].op = "update_task"
    /\ reqs[r].raised # OK
    /\ tasks' = [t \in DOMAIN tasks |->
                   IF t = reqs[r].task THEN get_db(tasks[t], reqs[r].dirty) ELSE tasks[t]]
    /\ reqs' = [reqs EXCEPT ![r] = Idle]
    /\ resp' = Response("update_task", reqs[r].caller, reqs[r].project, reqs[r].user,
                        reqs[r].task, reqs[r].raised,
                        [projects |-> {}, members |-> {}, tasks |-> {},
                         rolled_back |-> reqs[r].dirty])
    /\ UNCHANGED <<users, projects, members, nextUser, nextProject, nextRow, nextTask,
                   cascaded, inbox, session>>

\* update_task_status without the creator-or-assignee gate
update_task_status_response_ungated(caller, t, status) ==
    IF get_task_by_id(t) = {}
    THEN Refuse(HTTP_400_BAD_REQUEST, "Task not found")
    ELSE IF ~is_project_member(tasks[t].project_id, caller)
    THEN Refuse(HTTP_403_FORBIDDEN, "Not a member of this project")
    ELSE IF status \notin TaskStatus
    THEN Refuse(HTTP_400_BAD_REQUEST, "Invalid task status")
    ELSE OK

update_task_status_response(caller, t, status) ==
    IF get_task_by_id(t) = {}
    THEN Refuse(HTTP_400_BAD_REQUEST, "Task not found")
    ELSE IF ~is_project_member(tasks[t].project_id, caller)
    THEN Refuse(HTTP_403_FORBIDDEN, "Not a member of this project")
    ELSE IF tasks[t].created_by # caller /\ tasks[t].assignee_id # caller
    THEN Refuse(HTTP_400_BAD_REQUEST, "Only task creator or assignee can update task status")
    ELSE IF status \notin TaskStatus
    THEN Refuse(HTTP_400_BAD_REQUEST, "Invalid task status")
    ELSE OK

\* PUT /tasks/{task_id}/status
update_task_status(caller, t, status) ==
    /\ caller \in DOMAIN users
    /\ update_task_status_response(caller, t, status) = OK
    /\ tasks' = [tasks EXCEPT ![t].status = status]
    /\ resp' = Response("update_task_status", caller, tasks[t].project_id, NoId, t,
                        OK, NoData)
    /\ UNCHANGED <<users, projects, members, nextUser, nextProject, nextRow, nextTask,
                   reqs, cascaded, inbox, session>>

\* assign_task gated as update_task is: creator or assignee
assign_task_response_by_assignee(caller, t, u) ==
    IF get_task_by_id(t) = {}
    THEN Refuse(HTTP_400_BAD_REQUEST, "Task not found")
    ELSE IF ~is_project_member(tasks[t].project_id, caller)
    THEN Refuse(HTTP_403_FORBIDDEN, "Not a member of this project")
    ELSE IF tasks[t].created_by # caller /\ tasks[t].assignee_id # caller
    THEN Refuse(HTTP_400_BAD_REQUEST, "Only task creator can assign task")
    ELSE IF u \notin DOMAIN users
    THEN Refuse(HTTP_400_BAD_REQUEST, "Assignee not found")
    ELSE OK

assign_task_response(caller, t, u) ==
    IF get_task_by_id(t) = {}
    THEN Refuse(HTTP_400_BAD_REQUEST, "Task not found")
    ELSE IF ~is_project_member(tasks[t].project_id, caller)
    THEN Refuse(HTTP_403_FORBIDDEN, "Not a member of this project")
    ELSE IF tasks[t].created_by # caller
    THEN Refuse(HTTP_400_BAD_REQUEST, "Only task creator can assign task")
    ELSE IF u \notin DOMAIN users
    THEN Refuse(HTTP_400_BAD_REQUEST, "Assignee not found")
    ELSE OK

\* PUT /tasks/{task_id}/assign
assign_task(caller, t, u) ==
    /\ caller \in DOMAIN users
    /\ assign_task_response(caller, t, u) = OK
    /\ tasks' = [tasks EXCEPT ![t].assignee_id = u]
    /\ resp' = Response("assign_task", caller, tasks[t].project_id, u, t, OK, NoData)
    /\ UNCHANGED <<users, projects, members, nextUser, nextProject, nextRow, nextTask,
                   reqs, cascaded, inbox, session>>

delete_task_response(caller, t) ==
    IF get_task_by_id(t) = {}
    THEN Refuse(HTTP_400_BAD_REQUEST, "Task not found")
    ELSE IF ~is_project_member(tasks[t].project_id, caller)
    THEN Refuse(HTTP_403_FORBIDDEN, "Not a member of this project")
    ELSE IF tasks[t].created_by # caller
    THEN Refuse(HTTP_400_BAD_REQUEST, "Only task creator can delete task")
    ELSE OK

\* DELETE /tasks/{task_id}
delete_task(caller, t) ==
    /\ caller \in DOMAIN users
    /\ delete_task_response(caller, t) = OK
    /\ tasks' = [x \in DOMAIN tasks \ {t} |-> tasks[x]]
    /\ resp' = Response("delete_task", caller, tasks[t].project_id, NoId, t, OK, NoData)
    /\ UNCHANGED <<users, projects, members, nextUser, nextProject, nextRow, nextTask,
                   reqs, cascaded, inbox, session>>

\* --------------------------------------------------- NotificationService
\* get_user_notifications: the keys of the rows of user u, all or the unread ones
get_user_notifications(u, unread_only) ==
    {n \in DOMAIN notifications :
        /\ notifications[n].user_id = u
        /\ unread_only => ~notifications[n].is_read}

notification_row(data) ==
    [user_id |-> data.user_id, type |-> data.type, is_read |-> FALSE]

create_notification_response(caller, data) ==
    IF data.user_id # caller
    THEN Refuse(HTTP_403_FORBIDDEN, "Cannot create notifications for other users")
    ELSE OK

\* POST /notifications
create_notification(caller, data) ==
    /\ caller \in DOMAIN users
    /\ create_notification_response(caller, data) = OK
    /\ nextNotification <= MaxNotifications
    /\ notifications' = [n \in DOMAIN notifications \cup {nextNotification} |->
                           IF n = nextNotification THEN notification_row(data)
                                                   ELSE notifications[n]]
    /\ nextNotification' = nextNotification + 1
    /\ resp' = NotificationResponse("create_notification", caller, nextNotification, OK)
    /\ UNCHANGED <<store, reqs, cascaded, session>>

\* a lookup by key alone
any_notification(n, u) ==
    IF n \in DOMAIN notifications THEN {notifications[n]} ELSE {}

\* mark_notification_read, its query: the row with this key and this owner
owned_notification(n, u) ==
    IF n \in DOMAIN notifications /\ notifications[n].user_id = u
    THEN {notifications[n]}
    ELSE {}

mark_notification_read_response(caller, n) ==
    IF owned_notification(n, caller) = {}
    THEN Refuse(HTTP_400_BAD_REQUEST, "Notification not found")
    ELSE OK

\* PUT /notifications/{notification_id}/read
mark_notification_read(caller, n) ==
    /\ caller \in DOMAIN users
    /\ mark_notification_read_response(caller, n) = OK
    /\ notifications' = IF notifications[n].is_read
                        THEN notifications
                        ELSE [notifications EXCEPT ![n].is_read = TRUE]
    /\ resp' = NotificationResponse("mark_notification_read", caller, n, OK)
    /\ UNCHANGED <<store, nextNotification, reqs, cascaded, session>>

\* a bulk update that leaves out the filter on the user
all_read_of_everyone(u) ==
    [n \in DOMAIN notifications |-> [notifications[n] EXCEPT !.is_read = TRUE]]

\* mark_all_notifications_read, its bulk update
all_read(u) ==
    [n \in DOMAIN notifications |->
        IF notifications[n].user_id = u /\ ~notifications[n].is_read
        THEN [notifications[n] EXCEPT !.is_read = TRUE]
        ELSE notifications[n]]

\* PUT /notifications/read-all
mark_all_notifications_read(caller) ==
    /\ caller \in DOMAIN users
    /\ notifications' = all_read(caller)
    /\ resp' = NotificationResponse("mark_all_notifications_read", caller, NoId, OK)
    /\ UNCHANGED <<store, nextNotification, reqs, cascaded, session>>


\* ------------------------------------------------------------ authentication
\* routers/auth.py get_current_user: the caller of a protected endpoint
get_current_user_response(token, t) ==
    IF token.form = "none"
    THEN Refuse(HTTP_401_UNAUTHORIZED, "Not authenticated")
    ELSE IF ~verify_token(token, t)
    THEN Refuse(HTTP_401_UNAUTHORIZED, "Could not validate credentials")
    ELSE IF token.sub.kind = "absent"
    THEN Refuse(HTTP_401_UNAUTHORIZED, "Could not validate credentials")
    ELSE IF token.sub.kind # "uuid"
    \* uuid.UUID(user_id) raises ValueError after the try block
    THEN Refuse(HTTP_500_INTERNAL_SERVER_ERROR, "Internal Server Error")
    ELSE IF token.sub.id \notin DOMAIN users
    THEN Refuse(HTTP_401_UNAUTHORIZED, "User not found")
    ELSE OK

\* routers/auth.py get_current_active_user
get_current_active_user_response(token, t) ==
    IF get_current_user_response(token, t) # OK
    THEN get_current_user_response(token, t)
    ELSE IF ~users[token.sub.id].is_active
    THEN Refuse(HTTP_400_BAD_REQUEST, "Inactive user")
    ELSE OK

\* the caller a token stands for, once it is accepted
current_user(token, answer) == IF answer = OK THEN token.sub.id ELSE NoId

AuthResponse(op, token, answer) ==
    Response(op, current_user(token, answer), NoId, current_user(token, answer),
             NoId, answer, NoData)

Issued(token, ttl) == [token |-> token, issued_at |-> now, expires_in |-> ttl]

\* POST /auth/login with the right password of user u
login(u) ==
    /\ u \in DOMAIN users
    /\ users[u].is_active
    /\ held' = Issued(create_access_token(Sub(u), access_token_expires, now, tz),
                      expires_in)
    /\ bearer' = NoToken
    /\ resp' = Response("login", u, NoId, u, NoId, OK, NoData)
    /\ UNCHANGED <<store, reqs, cascaded, inbox, now, tz>>

\* POST /auth/refresh
refresh_token(token) ==
    LET answer == get_current_active_user_response(token, now)
    IN /\ bearer' = token
       /\ resp' = AuthResponse("refresh_token", token, answer)
       /\ held' = IF answer = OK
                  THEN Issued(create_access_token(Sub(token.sub.id),
                                                  access_token_expires, now, tz),
                              expires_in)
                  ELSE held
       /\ UNCHANGED <<store, reqs, cascaded, inbox, now, tz>>

\* GET /auth/me
read_users_me(token) ==
    /\ bearer' = token
    /\ resp' = AuthResponse("read_users_me", token,
                            get_current_active_user_response(token, now))
    /\ UNCHANGED <<store, reqs, cascaded, inbox, now, tz, held>>

\* create_access_token(data) with no expires_delta, for user u
issue_token(u) ==
    /\ u \in DOMAIN users
    /\ held' = Issued(create_access_token(Sub(u), NoDelta, now, tz), default_expires)
    /\ bearer' = NoToken
    /\ resp' = InFlight
    /\ UNCHANGED <<store, reqs, cascaded, inbox, now, tz>>

\* a quarter of an hour passes; no request is being answered
Tick ==
    /\ now < LastInstant
    /\ now' = now + Quarter
    /\ bearer' = NoToken
    /\ resp' = InFlight
    /\ UNCHANGED <<store, reqs, cascaded, inbox, tz, held>>

\* ------------------------------------------------------- request inputs
ProjectCreates == {[name |-> "n1", description |-> NoneStr]}
ProjectUpdates == {[name |-> "n2", description |-> NoneStr, is_active |-> NoneStr]}
\* ProjectUpdate with every combination of supplied and omitted fields
PartialProjectUpdates ==
    [name : {NoneStr, "n2"}, description : {NoneStr, "d2"}, is_active : {NoneStr, "False"}]
TaskCreates == [project_id : ProjectIds, title : {"t1"}, assignee_id : {NoId} \cup UserIds]
UnassignedTaskCreates == {d \in TaskCreates : d.assignee_id = NoId}
TaskUpdates == {[title |-> NoneStr, status |-> "in_progress", assignee_id |-> NoId],
                [title |-> "t2", status |-> "bogus", assignee_id |-> NoId]}
               \cup [title : {NoneStr}, status : {NoneStr}, assignee_id : UserIds]

\* the query parameters of GET /tasks
TaskQueries ==
    [project_id : {NoId} \cup ProjectIds, assignee_id : {NoId, 1},
     status : {NoneStr, "todo", "bogus"}, my_tasks : BOOLEAN]

\* TaskAssign.assignee_id: a registered user, or a key that names no user
UnknownUser == MaxUsers + 1
AssigneeInputs == UserIds \cup {UnknownUser}

\* TaskUpdate bodies of requests that fail and of requests that succeed
SessionTaskUpdates ==
    {[title |-> "t2", status |-> "bogus", assignee_id |-> NoId],
     [title |-> "t2", status |-> NoneStr, assignee_id |-> UnknownUser],
     [title |-> "t2", status |-> "done", assignee_id |-> NoId]}

NotificationCreates == [user_id : UserIds, type : {"task_assigned"}]


\* tokens nobody issued: no header, no JWT, another key, and tokens under the
\* right key with no subject, a subject that is no UUID, the UUID of no user
NeverExpires == LastInstant + access_token_expires
ForgedTokens ==
    {NoToken, Garbage,
     Jwt(OtherKey, Sub(1), NeverExpires),
     Jwt(SECRET_KEY, NoSub, NeverExpires),
     Jwt(SECRET_KEY, TextSub, NeverExpires),
     Jwt(SECRET_KEY, Sub(MaxUsers + 1), NeverExpires)}
TokenInputs == ForgedTokens \cup {held.token}

UserCreates == [email : EmailInputs, google_id : {NoId} \cup GoogleIds, password : BOOLEAN]

\* ------------------------------------------------------- specifications
\* the project handlers, each run from its first read to its last commit in one step
NextProjects ==
    \/ \E c \in UserIds, d \in ProjectCreates : create_project(c, d)
    \/ \E c \in UserIds, p \in ProjectIds, d \in ProjectUpdates : update_project(c, p, d)
    \/ \E c \in UserIds, p \in ProjectIds : delete_project(c, p)
    \/ \E c \in UserIds, p \in ProjectIds, u \in UserIds, role \in RoleInputs :
          add_project_member(c, p, u, role)
    \/ \E c \in UserIds, p \in ProjectIds, u \in UserIds : remove_project_member(c, p, u)
    \/ \E c \in UserIds, p \in ProjectIds, u \in UserIds, role \in RoleInputs :
          update_member_role(c, p, u, role)

SpecProjects == Init /\ [][NextProjects]_vars

\* who may see a project, its members and its tasks, and who may add a task
NextAccess ==
    \/ \E c \in UserIds, d \in ProjectCreates : create_project(c, d)
    \/ \E c \in UserIds, p \in ProjectIds : delete_project(c, p)
    \/ \E c \in UserIds, p \in ProjectIds, u \in UserIds : add_project_member(c, p, u, "member")
    \/ \E c \in UserIds, p \in ProjectIds, u \in UserIds : remove_project_member(c, p, u)
    \/ \E c \in UserIds, d \in UnassignedTaskCreates : create_task(c, d)
    \/ \E c \in UserIds, p \in ProjectIds : read_project(c, p)
    \/ \E c \in UserIds, p \in ProjectIds : read_project_members(c, p)
    \/ \E c \in UserIds, t \in TaskIds : read_task(c, t)
    \/ \E c \in UserIds, p \in ProjectIds : get_project_tasks(c, p)

SpecAccess == Init /\ [][NextAccess]_vars

\* the task handlers, on the projects of user 1, whose members come and go
NextTasks ==
    \/ \E d \in ProjectCreates : create_project(1, d)
    \/ \E c \in UserIds, p \in ProjectIds, u \in UserIds : add_project_member(c, p, u, "member")
    \/ \E c \in UserIds, p \in ProjectIds, u \in UserIds : remove_project_member(c, p, u)
    \/ \E c \in UserIds, d \in TaskCreates : create_task(c, d)
    \/ \E c \in UserIds, t \in TaskIds, d \in TaskUpdates : update_task(c, t, d)
    \/ \E c \in UserIds, t \in TaskIds, st \in StatusInputs : update_task_status(c, t, st)

SpecTasks == Init /\ [][NextTasks]_vars

\* the project handlers of overlapping requests, each on its own session:
\* a request's reads and each of its commits are separate steps
NextRequests ==
    \/ \E c \in UserIds, d \in ProjectCreates : create_project_commit_project(c, d)
    \/ \E r \in ReqIds : create_project_commit_member(r)
    \/ \E c \in UserIds, p \in ProjectIds, d \in ProjectUpdates : update_project(c, p, d)
    \/ \E c \in UserIds, p \in ProjectIds : delete_project(c, p)
    \/ \E c \in UserIds, p \in ProjectIds, u \in UserIds, role \in RoleInputs :
          add_project_member_read(c, p, u, role)
    \/ \E r \in ReqIds : add_project_member_commit(r)
    \/ \E c \in UserIds, p \in ProjectIds, u \in UserIds : remove_project_member_read(c, p, u)
    \/ \E r \in ReqIds : remove_project_member_commit(r)
    \/ \E c \in UserIds, p \in ProjectIds, u \in UserIds, role \in RoleInputs :
          update_member_role_read(c, p, u, role)
    \/ \E r \in ReqIds : update_member_role_commit(r)
    \/ \E c \in UserIds, u \in UserIds : delete_user(c, str(u))

SpecRequests == Init /\ [][NextRequests]_vars

\* the membership handlers of overlapping requests, on projects created in one step
NextMembers ==
    \/ \E c \in UserIds, d \in ProjectCreates : create_project(c, d)
    \/ \E c \in UserIds, p \in ProjectIds, u \in UserIds, role \in RoleInputs :
          add_project_member_read(c, p, u, role)
    \/ \E r \in ReqIds : add_project_member_commit(r)
    \/ \E c \in UserIds, p \in ProjectIds, u \in UserIds : remove_project_member_read(c, p, u)
    \/ \E r \in ReqIds : remove_project_member_commit(r)
    \/ \E c \in UserIds, p \in ProjectIds, u \in UserIds, role \in RoleInputs :
          update_member_role_read(c, p, u, role)
    \/ \E r \in ReqIds : update_member_role_commit(r)

SpecMembers == Init /\ [][NextMembers]_vars

\* ================================================================ claims

\* the last step answered the request op with success
Succeeded(op) == resp.op = op /\ resp.status = HTTP_200_OK

\* the membership rows of project p that are the OWNER row of user u
owner_rows(p, u) ==
    {m \in get_project_members(p) : m.user_id = u /\ m.role = "owner"}

\* C1: when create_project has answered with success, the new project has exactly
\* one membership row, that row is the creator's with role owner, and
\* is_project_admin(project, creator) is true.
C1_CreateYieldsOneOwnerRow ==
    Succeeded("create_project") =>
        /\ Cardinality(get_project_members(resp.project)) = 1
        /\ get_project_members(resp.project) = owner_rows(resp.project, resp.caller)
        /\ is_project_admin(resp.project, resp.caller)

\* C2: in every state of the store, also between the two commits of
\* create_project, the owner of every existing project has a membership row in
\* that project with role owner.
C2_OwnerAlwaysHasOwnerRow ==
    \A p \in DOMAIN projects : owner_rows(p, projects[p].owner_id) # {}

\* C3: in every state there is at most one membership row per (project, user),
\* also when two add_project_member requests for the same pair overlap.
C3_OneRowPerProjectAndUser ==
    \A m1 \in members, m2 \in members :
        (m1.project_id = m2.project_id /\ m1.user_id = m2.user_id) => m1 = m2

\* C4: every stored membership row carries a role of MemberRole; a request that
\* supplies another role never leaves a row with that role.
C4_StoredRolesAreMemberRoles ==
    \A m \in members : m.role \in MemberRole

\* "fails with Forbidden": the request is refused for want of authorization, told
\* by the router's 403 or by the reason the service gives
Forbidden(answer) ==
    answer.status = HTTP_403_FORBIDDEN \/ answer.detail \in ForbiddenDetails

\* the step just taken answered a request of one of the handlers ops
Answers(ops) == resp'.op \in ops

\* user u holds a membership row of project p with one of the roles
holds_role(p, u, roles) ==
    \E m \in get_project_members(p) : m.user_id = u /\ m.role \in roles

\* C5: remove_project_member and update_member_role refuse every caller when the
\* target is the project's owner ...
C5_OwnerTargetRefused ==
    \A p \in DOMAIN projects, c \in UserIds :
        /\ remove_project_member_response(c, p, projects[p].owner_id) # OK
        /\ update_member_role_response(c, p, projects[p].owner_id) # OK

\* ... and no step of either handler touches a membership row of the owner
C5_OwnerRowUntouched ==
    Answers({"remove_project_member", "update_member_role"}) =>
        /\ resp'.project \in DOMAIN projects
        /\ resp'.user # projects[resp'.project].owner_id
        /\ \A p \in DOMAIN projects, o \in UserIds :
              (p = resp'.project /\ o = projects[p].owner_id) =>
                  existing_member(p, o)' = existing_member(p, o)

\* C5: removeMember and updateMemberRole fail for every caller whenever the target
\* is the project's owner, and the owner's membership row is left unchanged.
C5_OwnerIsProtected == []C5_OwnerTargetRefused /\ [][C5_OwnerRowUntouched]_vars

\* an ADMIN who is not the owner asks for the owner's removal, the owner asks for
\* a change of the owner's own role: both meet the owner's protection
C5_Witness ==
    \E p \in DOMAIN projects, c \in UserIds :
        /\ c # projects[p].owner_id
        /\ holds_role(p, c, {"admin"})
        /\ remove_project_member_response(c, p, projects[p].owner_id).detail
             = "Cannot remove project owner"
        /\ update_member_role_response(projects[p].owner_id, p, projects[p].owner_id).detail
             = "Cannot change owner's role"

\* C6: is-admin-or-owner as the specification states it
admin_or_owner(p, u) ==
    p \in DOMAIN projects /\ (projects[p].owner_id = u \/ holds_role(p, u, {"owner", "admin"}))

\* whoever is not owner or admin of an existing project is refused as Forbidden ...
C6_OthersForbidden ==
    \A p \in DOMAIN projects, c \in UserIds :
        ~admin_or_owner(p, c) =>
            /\ Forbidden(update_project_response(c, p))
            /\ \A u \in UserIds : /\ Forbidden(add_project_member_response(c, p, u))
                                  /\ Forbidden(remove_project_member_response(c, p, u))

\* ... and every step of the three handlers is taken for an owner or admin
C6_OnlyAdminOrOwnerActs ==
    Answers({"update_project", "add_project_member", "remove_project_member"}) =>
        admin_or_owner(resp'.project, resp'.caller)

\* C6: updateProject, addMember and removeMember succeed only for the project's
\* owner or a holder of an OWNER or ADMIN row; any other caller is refused as
\* Forbidden and nothing changes.
C6_AdminOrOwnerGate == []C6_OthersForbidden /\ [][C6_OnlyAdminOrOwnerActs]_vars

\* scenario C, its end: a user who is not the owner has updated the project as ADMIN
C6_Witness ==
    /\ Succeeded("update_project")
    /\ resp.project \in DOMAIN projects
    /\ resp.caller # projects[resp.project].owner_id
    /\ holds_role(resp.project, resp.caller, {"admin"})
    /\ projects[resp.project].name = "n2"

\* whoever is not the owner of an existing project is refused as Forbidden ...
C7_OthersForbidden ==
    \A p \in DOMAIN projects, c \in UserIds :
        c # projects[p].owner_id =>
            /\ Forbidden(delete_project_response(c, p))
            /\ \A u \in UserIds : Forbidden(update_member_role_response(c, p, u))

\* ... and every step of the two handlers is taken for the owner
C7_OnlyOwnerActs ==
    Answers({"delete_project", "update_member_role"}) =>
        /\ resp'.project \in DOMAIN projects
        /\ resp'.caller = projects[resp'.project].owner_id

\* C7: deleteProject and updateMemberRole succeed only for the project's owner;
\* any other caller, also one holding an ADMIN or OWNER row, is refused as
\* Forbidden and the project and its rows are unchanged.
C7_ExactOwnerGate == []C7_OthersForbidden /\ [][C7_OnlyOwnerActs]_vars

\* a user who is not the owner holds an OWNER row, another (or the same) an ADMIN
\* row, and both handlers refuse them
C7_Witness ==
    \E p \in DOMAIN projects, c \in UserIds :
        /\ c # projects[p].owner_id
        /\ holds_role(p, c, {"owner", "admin"})
        /\ delete_project_response(c, p).detail = "Only project owners can delete projects"
        /\ update_member_role_response(c, p, c).detail
             = "Only project owners can change member roles"

\* "answered Forbidden or NotFound" by an endpoint
Denied(answer) == answer.status \in {HTTP_403_FORBIDDEN, HTTP_404_NOT_FOUND}

\* user u has a membership row in project p
has_row(p, u) == get_project_members(p) \cap {m \in members : m.user_id = u} # {}

ReadOps == {"read_project", "read_project_members", "get_project_tasks", "read_task"}

\* a caller without a row in P is denied by the five endpoints ...
C8_NonMemberDenied ==
    \A p \in ProjectIds, c \in UserIds :
        ~has_row(p, c) =>
            /\ Denied(read_project_response(c, p))
            /\ Denied(read_project_members_response(c, p))
            /\ Denied(get_project_tasks_response(c, p))
            /\ \A t \in project_tasks(p) : Denied(read_task_response(c, t))
            /\ \A d \in TaskCreates : d.project_id = p => Denied(create_task_response(c, d))

\* ... and every answer with data, and every new task, goes to a caller who has
\* a row in the project; an answer with data leaves the store alone
C8_OnlyMembersServed ==
    /\ Answers(ReadOps \cup {"create_task"}) => has_row(resp'.project, resp'.caller)
    /\ Answers(ReadOps) =>
          /\ UNCHANGED store
          /\ resp'.data.projects \subseteq {resp'.project}
          /\ \A m \in resp'.data.members : m.project_id = resp'.project
          /\ \A t \in resp'.data.tasks : tasks[t].project_id = resp'.project

\* C8: a caller with no membership row in project P never receives P's data and
\* never creates a task in P: the five endpoints answer Forbidden or NotFound and
\* change nothing.
C8_NonMembersSeeNothing == []C8_NonMemberDenied /\ [][C8_OnlyMembersServed]_vars

\* a user removed from a project that has a task asks for the project, its tasks,
\* the task, and a new task
C8_Witness ==
    /\ Succeeded("remove_project_member")
    /\ resp.project \in DOMAIN projects
    /\ ~has_row(resp.project, resp.user)
    /\ read_project_response(resp.user, resp.project).status = HTTP_403_FORBIDDEN
    /\ get_project_tasks_response(resp.user, resp.project).status = HTTP_403_FORBIDDEN
    /\ \E t \in project_tasks(resp.project) :
          /\ read_task_response(resp.user, t).status = HTTP_403_FORBIDDEN
          /\ \E d \in TaskCreates :
                /\ d.project_id = resp.project
                /\ create_task_response(resp.user, d).status = HTTP_403_FORBIDDEN

\* the projects that have been deleted: keys are never reused
deleted_projects == {p \in ProjectIds : p < nextProject /\ p \notin DOMAIN projects}

\* nothing in the store refers to a deleted project, and the tasks that went with
\* it are not found, whoever asks ...
C9_NothingLeftOfDeleted ==
    /\ \A m \in members : m.project_id \notin deleted_projects
    /\ \A t \in DOMAIN tasks : tasks[t].project_id \notin deleted_projects
    /\ \A x \in cascaded :
          /\ x[2] \in deleted_projects
          /\ \A c \in UserIds : read_task_response(c, x[1]).status = HTTP_404_NOT_FOUND

\* ... the deletion itself takes the project, its rows and its tasks, and no task
\* that went with a project is read again
C9_DeleteCascades ==
    /\ Answers({"delete_project"}) =>
          \E p \in DOMAIN projects :
              /\ p = resp'.project
              /\ p \in deleted_projects'
              /\ get_project_members(p)' = {}
              /\ project_tasks(p)' = {}
              /\ cascaded' = cascaded \cup {<<t, p>> : t \in project_tasks(p)}
    /\ Answers({"read_task"}) => \A x \in cascaded : x[1] # resp'.task

\* C9: after deleteProject(P) succeeds no membership row and no task of P remains,
\* and every later read of a task that belonged to P is answered NotFound.
C9_DeleteProjectCascades == []C9_NothingLeftOfDeleted /\ [][C9_DeleteCascades]_vars

\* a project with a task has just been deleted
C9_Witness ==
    /\ Succeeded("delete_project")
    /\ \E x \in cascaded : x[2] = resp.project /\ x[1] \notin DOMAIN tasks

\* whoever is neither creator nor assignee of a task is refused as Forbidden ...
C10_OthersForbidden ==
    \A t \in DOMAIN tasks, c \in UserIds :
        (tasks[t].created_by # c /\ tasks[t].assignee_id # c) =>
            /\ \A d \in TaskUpdates : Forbidden(update_task_response(c, t, d))
            /\ \A st \in StatusInputs : Forbidden(update_task_status_response(c, t, st))

\* ... and every step of the two handlers is taken for the creator or the
\* assignee of the task as it is when the request arrives
C10_OnlyCreatorOrAssigneeActs ==
    Answers({"update_task", "update_task_status"}) =>
        /\ resp'.task \in DOMAIN tasks
        /\ resp'.caller \in {tasks[resp'.task].created_by, tasks[resp'.task].assignee_id}

\* C10: updateTask and updateStatus succeed only for the task's creator or its
\* current assignee; every other caller is refused as Forbidden and the task is
\* unchanged.
C10_CreatorOrAssigneeGate == []C10_OthersForbidden /\ [][C10_OnlyCreatorOrAssigneeActs]_vars

\* the assignee, who did not create the task, has changed its status
C10_Witness ==
    /\ Succeeded("update_task_status")
    /\ tasks[resp.task].assignee_id = resp.caller
    /\ tasks[resp.task].created_by # resp.caller
    /\ tasks[resp.task].status = "in_progress"

\* who may give a task to someone, and who may delete it, on the projects of user 1
NextAssign ==
    \/ \E d \in ProjectCreates : create_project(1, d)
    \/ \E c \in UserIds, p \in ProjectIds, u \in UserIds : add_project_member(c, p, u, "member")
    \/ \E c \in UserIds, p \in ProjectIds, u \in UserIds : remove_project_member(c, p, u)
    \/ \E c \in UserIds, d \in UnassignedTaskCreates : create_task(c, d)
    \/ \E c \in UserIds, t \in TaskIds, st \in StatusInputs : update_task_status(c, t, st)
    \/ \E c \in UserIds, t \in TaskIds, u \in AssigneeInputs : assign_task(c, t, u)
    \/ \E c \in UserIds, t \in TaskIds : delete_task(c, t)

SpecAssign == Init /\ [][NextAssign]_vars

\* "fails with NotFound": told by the router's 404 or by the reason the service gives
NotFound(answer) ==
    answer.status = HTTP_404_NOT_FOUND \/ answer.detail \in NotFoundDetails

\* whoever did not create a task is refused as Forbidden, the assignee too, and
\* the creator's assignment to a user that does not exist fails with NotFound ...
C11_OthersForbidden ==
    \A t \in DOMAIN tasks, c \in UserIds :
        /\ tasks[t].created_by # c =>
              /\ Forbidden(delete_task_response(c, t))
              /\ \A u \in AssigneeInputs : Forbidden(assign_task_response(c, t, u))
        /\ (tasks[t].created_by = c /\ assign_task_response(c, t, c) = OK) =>
              NotFound(assign_task_response(c, t, UnknownUser))

\* ... and every step of the two handlers is taken for the creator; an
\* assignment stores a user that exists
C11_OnlyCreatorActs ==
    Answers({"assign_task", "delete_task"}) =>
        /\ resp'.task \in DOMAIN tasks
        /\ resp'.caller = tasks[resp'.task].created_by
        /\ Answers({"assign_task"}) => resp'.user \in DOMAIN users

\* C11: assign and deleteTask succeed only for the task's creator; the assignee
\* who is not the creator is refused as Forbidden and the task keeps its assignee
\* and stays; the creator's assign to a user that does not exist fails with
\* NotFound and leaves the assignee unchanged.
C11_CreatorOnlyGate == []C11_OthersForbidden /\ [][C11_OnlyCreatorActs]_vars

\* the creator has assigned the task to another member, who may neither pass it
\* on nor delete it; the creator's next assignment names no user
C11_Witness ==
    /\ Succeeded("assign_task")
    /\ resp.task \in DOMAIN tasks
    /\ tasks[resp.task].assignee_id = resp.user
    /\ resp.user # resp.caller
    /\ assign_task_response(resp.user, resp.task, resp.caller).detail
         = "Only task creator can assign task"
    /\ delete_task_response(resp.user, resp.task).detail = "Only task creator can delete task"
    /\ assign_task_response(resp.caller, resp.task, UnknownUser).detail = "Assignee not found"

\* "fails with InvalidArgument": told by the reason the service gives
InvalidArgument(answer) == answer.detail \in InvalidArgumentDetails

\* the request d without its status
without_status(d) == [d EXCEPT !.status = NoneStr]

\* every stored status is a TaskStatus, and a request with another status is
\* never served: where the same request with a good status would be served, it
\* fails with InvalidArgument ...
C12_StatusIsTaskStatus ==
    /\ \A t \in DOMAIN tasks : tasks[t].status \in TaskStatus
    /\ \A t \in DOMAIN tasks, c \in UserIds :
          /\ \A st \in StatusInputs \ TaskStatus :
                /\ update_task_status_response(c, t, st) # OK
                /\ (\E ok \in TaskStatus : update_task_status_response(c, t, ok) = OK)
                      => InvalidArgument(update_task_status_response(c, t, st))
          /\ \A d \in TaskUpdates :
                d.status \notin TaskStatus \cup {NoneStr} =>
                    /\ update_task_response(c, t, d) # OK
                    /\ update_task_response(c, t, without_status(d)) = OK
                          => InvalidArgument(update_task_response(c, t, d))

\* ... and a stored status changes only to a TaskStatus
C12_StatusChangesToTaskStatus ==
    \A t \in DOMAIN tasks :
        (t \in DOMAIN tasks' /\ tasks'[t].status # tasks[t].status) =>
            /\ Answers({"update_task", "update_task_status"})
            /\ resp'.task = t
            /\ tasks'[t].status \in TaskStatus

\* C12: a task's stored status is always one of TODO, IN_PROGRESS, DONE;
\* updateStatus or updateTask with any other status string fails with
\* InvalidArgument and the stored status is the same as before.
C12_StatusStaysInEnum == []C12_StatusIsTaskStatus /\ [][C12_StatusChangesToTaskStatus]_vars

\* a task whose status has been changed, and whose creator now sends a status
\* that is no TaskStatus to both handlers
C12_Witness ==
    \E t \in DOMAIN tasks :
        /\ tasks[t].status = "in_progress"
        /\ update_task_status_response(tasks[t].created_by, t, "bogus").detail
             = "Invalid task status"
        /\ \E d \in TaskUpdates :
              /\ d.status = "bogus"
              /\ update_task_response(tasks[t].created_by, t, d).detail = "Invalid task status"

\* the notification handlers
NextNotifications ==
    \/ \E c \in UserIds, d \in NotificationCreates : create_notification(c, d)
    \/ \E c \in UserIds, n \in NotificationIds : mark_notification_read(c, n)
    \/ \E c \in UserIds : mark_all_notifications_read(c)

SpecNotifications == Init /\ [][NextNotifications]_vars

\* a key that is no notification of the caller's is not found, a notification of
\* the caller's can be marked, read or unread ...
C13_OnlyOwnFound ==
    \A c \in UserIds, n \in NotificationIds :
        IF n \in DOMAIN notifications /\ notifications[n].user_id = c
        THEN mark_notification_read_response(c, n) = OK
        ELSE NotFound(mark_notification_read_response(c, n))

\* ... and marking leaves the caller's notification read and changes nothing
\* else: nothing at all when it was read already
C13_MarksOwnOnly ==
    Answers({"mark_notification_read"}) =>
        \E n \in DOMAIN notifications :
            /\ n = resp'.notification
            /\ notifications[n].user_id = resp'.caller
            /\ notifications'[n].is_read
            /\ \A m \in DOMAIN notifications \ {n} : notifications'[m] = notifications[m]
            /\ DOMAIN notifications' = DOMAIN notifications
            /\ notifications[n].is_read => notifications' = notifications
            /\ UNCHANGED <<store, nextNotification>>

\* C13: markRead(id, userId) fails with NotFound, changing nothing, when no
\* notification has both that id and that owner; otherwise it leaves the
\* notification read, and marking it again succeeds without changing any state.
C13_MarkReadOwnOnly == []C13_OnlyOwnFound /\ [][C13_MarksOwnOnly]_vars

\* the owner has marked a notification; marking it again is served, and the
\* other user, who has an unread notification too, does not find this one
C13_Witness ==
    /\ Succeeded("mark_notification_read")
    /\ notifications[resp.notification].is_read
    /\ mark_notification_read_response(resp.caller, resp.notification) = OK
    /\ \E c \in UserIds :
          /\ c # resp.caller
          /\ get_user_notifications(c, TRUE) # {}
          /\ mark_notification_read_response(c, resp.notification).detail
               = "Notification not found"

\* every user can mark all, with or without unread notifications ...
C14_AlwaysServed ==
    \A c \in DOMAIN users : ENABLED mark_all_notifications_read(c)

\* ... after it the caller has no unread notification, the rows of others and
\* the rows already read are as before, and with nothing unread nothing changes
C14_MarksAllOfCaller ==
    Answers({"mark_all_notifications_read"}) =>
        \E c \in UserIds :
            /\ c = resp'.caller
            /\ resp'.status = HTTP_200_OK
            /\ get_user_notifications(c, TRUE)' = {}
            /\ get_user_notifications(c, FALSE)' = get_user_notifications(c, FALSE)
            /\ DOMAIN notifications' = DOMAIN notifications
            /\ \A n \in DOMAIN notifications :
                  (notifications[n].user_id # c \/ notifications[n].is_read)
                      => notifications'[n] = notifications[n]
            /\ get_user_notifications(c, TRUE) = {} => notifications' = notifications
            /\ UNCHANGED <<store, nextNotification>>

\* C14: markAllRead(userId) always succeeds, also with no unread notification;
\* after it the user's unread count is 0, and a second call in succession leaves
\* the store exactly as the first left it.
C14_MarkAllReadIdempotent == []C14_AlwaysServed /\ [][C14_MarksAllOfCaller]_vars

\* a user with notifications has marked all, while another user's notification
\* stays unread
C14_Witness ==
    /\ Succeeded("mark_all_notifications_read")
    /\ get_user_notifications(resp.caller, FALSE) # {}
    /\ get_user_notifications(resp.caller, TRUE) = {}
    /\ \E c \in UserIds : c # resp.caller /\ get_user_notifications(c, TRUE) # {}

\* ------------------------------------------------- tokens and their expiry
\* The clock, the host's zone, login, refresh and the protected endpoint
\* GET /auth/me, which here answers every request, the refused ones too.
NextAuth ==
    \/ \E u \in UserIds : login(u)
    \/ \E token \in TokenInputs : refresh_token(token)
    \/ \E token \in TokenInputs : read_users_me(token)
    \/ \E u \in UserIds : issue_token(u)
    \/ Tick

SpecAuth == InitIn(HostZones) /\ [][NextAuth]_vars

ProtectedOps == {"refresh_token", "read_users_me"}

\* the tokens claim C15 lists: missing, malformed, signed with another key,
\* expired at instant t, without subject, or with a subject that is no user's
Unacceptable(token, t) ==
    \/ token.form = "none"
    \/ token.form = "garbage"
    \/ token.key # SECRET_KEY
    \/ token.exp < t
    \/ token.sub.kind = "absent"
    \/ ~(token.sub.kind = "uuid" /\ token.sub.id \in DOMAIN users)

\* C15: a request to a protected endpoint whose bearer token is missing,
\* malformed, signed with another key, expired, or whose subject is absent or
\* names no existing user is answered 401.
C15_BadTokenIs401 ==
    (resp.op \in ProtectedOps /\ Unacceptable(bearer, now)) =>
        resp.status = HTTP_401_UNAUTHORIZED

\* the instant the claim promises a held token expires at
promised_expiry == held.issued_at + held.expires_in

\* C16: the token issued by login or refresh expires exactly expires_in (1800 s)
\* after its issue, the token issued with no ttl 900 s after its issue;
\* verify_token accepts it at every instant before and refuses it at every
\* instant after, on a host of any time zone.
C16_ExpiryIsIssuePlusTtl ==
    held # NoHeld =>
        /\ held.expires_in \in {expires_in, default_expires}
        /\ held.token.exp = promised_expiry
        /\ now < promised_expiry => verify_token(held.token, now)
        /\ now > promised_expiry => ~verify_token(held.token, now)

\* ------------------------------------------------------------ user accounts
\* Registration, the service methods that create or link accounts, and the
\* deletion of accounts by any path parameter that names a user.
AccountIds == 1..(MaxUsers + MaxSignups)
PathIds == {[id |-> u, form |-> f] : u \in AccountIds, f \in UuidForms} \cup {InvalidId}

NextUsers ==
    \/ \E d \in UserCreates : register(d)
    \/ \E d \in UserCreates : create_user(d)
    \/ \E g \in GoogleIds, e \in EmailInputs : create_or_update_google_user(g, e)
    \/ \E c \in AccountIds, user_id \in PathIds : delete_user(c, user_id)

SpecUsers == Init /\ [][NextUsers]_vars

\* "fails with Conflict": refused for a uniqueness or state violation, told by
\* the reason the service gives
Conflict(answer) == answer.detail \in ConflictDetails

email_held(email) == get_user_by_email(email) # {}
google_id_held(google_id) == google_id # NoId /\ get_user_by_google_id(google_id) # {}

C17_NoSharedEmailOrGoogleId ==
    \A v \in DOMAIN users, w \in DOMAIN users :
        v # w => /\ users[v].email # users[w].email
                 /\ users[v].google_id # NoId => users[v].google_id # users[w].google_id

C17_DuplicateIsConflict ==
    \A d \in UserCreates :
        (email_held(d.email) \/ google_id_held(d.google_id)) =>
            /\ Conflict(create_user_response(d))
            /\ Conflict(register_response(d))

C17_OnlyFreshIsAdded ==
    Answers({"create_user", "register"}) =>
        /\ resp'.status = HTTP_200_OK
        /\ resp'.user \notin DOMAIN users
        /\ DOMAIN users' = DOMAIN users \cup {resp'.user}
        /\ \A v \in DOMAIN users : users'[v] = users[v]
        /\ \E u \in DOMAIN users' :
              /\ u = resp'.user
              /\ ~email_held(users'[u].email)
              /\ ~google_id_held(users'[u].google_id)

\* C17: no two users ever share an email or a Google id; create_user and
\* registration with an email or a Google id that an existing user holds fail
\* with Conflict, and they add a row only for an email and a Google id that
\* nobody holds.
C17_UniqueEmailAndGoogleId ==
    /\ [](C17_NoSharedEmailOrGoogleId /\ C17_DuplicateIsConflict)
    /\ [][C17_OnlyFreshIsAdded]_vars

\* a Google account has just registered, and a request with a new email and
\* that Google id is refused
C17_Witness ==
    /\ Succeeded("register")
    /\ resp.user \in DOMAIN users
    /\ users[resp.user].google_id # NoId
    /\ \E d \in UserCreates :
          /\ ~email_held(d.email)
          /\ d.google_id = users[resp.user].google_id
          /\ Conflict(create_user_response(d))

\* C18: every integrity violation raised at a commit of a service method is
\* caught in that method and answered as a Conflict; create_user and
\* create_or_update_google_user never let the error escape.
C18_IntegrityErrorsAreConflicts ==
    /\ \A d \in UserCreates :
          create_user_response(d) = OK \/ Conflict(create_user_response(d))
    /\ \A g \in GoogleIds, e \in EmailInputs :
          \/ create_or_update_google_user_response(g, e) = OK
          \/ Conflict(create_or_update_google_user_response(g, e))

\* C19: DELETE /users/{id} never deletes the caller's own account, whatever the
\* form of the id in the path.
C19_NoSelfDelete ==
    Succeeded("delete_user") => resp.user # resp.caller

\* C20: PUT /projects/{id} by a caller who is neither owner nor admin of the
\* project, and DELETE /projects/{id} by a member who is not its owner, are
\* answered with HTTP 403 (a refused request leaves the project as it is).
C20_UnauthorizedIs403 ==
    \A p \in DOMAIN projects, c \in UserIds :
        /\ ~is_project_admin(p, c) =>
              update_project_response(c, p).status = HTTP_403_FORBIDDEN
        /\ (is_project_member(p, c) /\ projects[p].owner_id # c) =>
              delete_project_response(c, p).status = HTTP_403_FORBIDDEN

\* C21: GET, PUT and DELETE /projects/{id} with a well-formed id that names no
\* existing project are answered with HTTP 404.
C21_AbsentProjectIs404 ==
    \A p \in ProjectIds \ DOMAIN projects, c \in UserIds :
        /\ read_project_response(c, p).status = HTTP_404_NOT_FOUND
        /\ update_project_response(c, p).status = HTTP_404_NOT_FOUND
        /\ delete_project_response(c, p).status = HTTP_404_NOT_FOUND

\* --------------------------------------------------- deletion of accounts
\* User 1 with projects and notifications, the others as members and task
\* creators, and the deletion of a user by another user.
NextAccounts ==
    \/ \E d \in ProjectCreates : create_project(1, d)
    \/ \E c \in UserIds, p \in ProjectIds, u \in UserIds :
          add_project_member(c, p, u, "member")
    \/ \E c \in UserIds, d \in UnassignedTaskCreates : create_task(c, d)
    \/ \E d \in NotificationCreates : create_notification(1, d)
    \/ \E c \in UserIds, u \in UserIds : delete_user(c, str(u))

SpecAccounts == Init /\ [][NextAccounts]_vars

\* what the store still holds that names user u
refers_to(u) ==
    /\ u \in DOMAIN users
       \/ \E p \in DOMAIN projects : projects[p].owner_id = u
       \/ \E m \in members : m.user_id = u
       \/ \E n \in DOMAIN notifications : notifications[n].user_id = u
       \/ \E t \in DOMAIN tasks : tasks[t].created_by = u

\* what the store still holds of project p
remains_of(p) ==
    \/ p \in DOMAIN projects
    \/ \E m \in members : m.project_id = p
    \/ \E t \in DOMAIN tasks : tasks[t].project_id = p

\* every reference of the store names a row that exists
C22_NoDanglingReference ==
    /\ \A p \in DOMAIN projects : projects[p].owner_id \in DOMAIN users
    /\ \A m \in members : m.user_id \in DOMAIN users /\ m.project_id \in DOMAIN projects
    /\ \A n \in DOMAIN notifications : notifications[n].user_id \in DOMAIN users
    /\ \A t \in DOMAIN tasks : /\ tasks[t].created_by \in DOMAIN users
                               /\ tasks[t].project_id \in DOMAIN projects

\* a user whom a remaining task would still name as its creator is not deleted
C22_CreatorIsKept ==
    \A c \in UserIds, u \in DOMAIN users :
        orphaned_created_tasks(u) # {} => delete_user_response(c, str(u)) # OK

\* a deletion takes the user, the projects the user owns and all that names them
C22_DeleteTakesAll ==
    Answers({"delete_user"}) =>
        \E u \in DOMAIN users :
            /\ u = resp'.user
            /\ ~refers_to(u)'
            /\ \A p \in owned_projects(u) : ~remains_of(p)'
            /\ orphaned_created_tasks(u) = {}

\* C22: a successful delete_user(u) removes u, every project u owns with its
\* membership rows and tasks, every membership row of u and every notification
\* of u, so that nothing in the store names u as owner, member, notification
\* owner or task creator; it is refused, the store unchanged, when a remaining
\* task would still name u as its creator.
C22_DeleteUserCascades ==
    /\ [](C22_NoDanglingReference /\ C22_CreatorIsKept)
    /\ [][C22_DeleteTakesAll]_vars

\* a user was deleted together with an owned project, its task and the
\* notifications the user had
C22_Witness ==
    /\ Succeeded("delete_user")
    /\ cascaded # {}
    /\ nextNotification > 1
    /\ DOMAIN notifications = {}

\* ------------------------------------------------------- partial updates
\* A project, with user 2 as admin if user 1 owns it and a task, updated with every
\* combination of supplied and omitted fields.
NextUpdates ==
    \/ \E c \in {1, 2}, d \in ProjectCreates : create_project(c, d)
    \/ \E p \in ProjectIds : add_project_member(1, p, 2, "admin")
    \/ \E c \in {1, 2}, d \in UnassignedTaskCreates : create_task(c, d)
    \/ \E c \in UserIds, p \in ProjectIds, d \in PartialProjectUpdates :
          update_project(c, p, d)

SpecUpdates == Init /\ [][NextUpdates]_vars

ProjectUpdateFields == {"name", "description", "is_active"}

\* the step is the update of project p with data d: a column changes only if d
\* supplies it, and what else the project has is as before
C23_UpdateKeepsOmitted ==
    Answers({"update_project"}) =>
        \E p \in DOMAIN projects :
            /\ p = resp'.project
            /\ \A d \in PartialProjectUpdates :
                  update_project(resp'.caller, p, d) =>
                      /\ p \in DOMAIN projects'
                      /\ \A f \in ProjectUpdateFields :
                            projects'[p][f] # projects[p][f] => d[f] # NoneStr
                      /\ projects'[p].owner_id = projects[p].owner_id
                      /\ \A q \in DOMAIN projects \ {p} : projects'[q] = projects[q]
                      /\ DOMAIN projects' = DOMAIN projects
                      /\ members' = members
                      /\ tasks' = tasks

\* C23: a successful update_project changes only those of name, description and
\* is_active that the request supplies; an omitted field keeps its value, and
\* the owner, the membership rows and the tasks are unchanged.
C23_PartialUpdate == [][C23_UpdateKeepsOmitted]_vars

\* a project with a second member and a task was updated in its active flag and
\* description while its name, never supplied, is still the one it was created with
C23_Witness ==
    /\ Succeeded("update_project")
    /\ projects[resp.project].name = "n1"
    /\ projects[resp.project].description = "d2"
    /\ ~projects[resp.project].is_active
    /\ Cardinality(get_project_members(resp.project)) > 1
    /\ project_tasks(resp.project) # {}

\* the step changes the assignee of a task that exists before and after it
reassigned(t) ==
    t \in DOMAIN tasks /\ t \in DOMAIN tasks' /\ tasks'[t].assignee_id # tasks[t].assignee_id

C24_CreatorReassigns ==
    \A t \in TaskIds : reassigned(t) => resp'.caller = tasks[t].created_by

\* C24: the assignee of a task changes only by an operation of the task's
\* creator; no call of assign_task, update_task or update_task_status by the
\* assignee who is not the creator changes whom the task is assigned to.
C24_OnlyCreatorReassigns == [][C24_CreatorReassigns]_vars

\* the membership rows of project p with role OWNER
rows_with_owner_role(p) == {m \in get_project_members(p) : m.role = "owner"}

\* C25: in every state each project has exactly one membership row with role
\* OWNER, the row of the project's owner; no add_project_member and no
\* update_member_role gives the role OWNER to another user.
C25_OneOwnerRow ==
    \A p \in DOMAIN projects :
        /\ Cardinality(rows_with_owner_role(p)) = 1
        /\ rows_with_owner_role(p) = owner_rows(p, projects[p].owner_id)

\* ------------------------------------------------ tasks of removed members
\* A project of user 1 whose members are added by overlapping requests and
\* removed, and the tasks its members create and move.
NextRemoved ==
    \/ \E d \in ProjectCreates : create_project(1, d)
    \/ \E p \in ProjectIds, u \in UserIds : add_project_member_read(1, p, u, "member")
    \/ \E r \in ReqIds : add_project_member_commit(r)
    \/ \E p \in ProjectIds, u \in UserIds : remove_project_member(1, p, u)
    \/ \E c \in UserIds, d \in UnassignedTaskCreates : create_task(c, d)
    \/ \E c \in UserIds, t \in TaskIds, st \in StatusInputs : update_task_status(c, t, st)
    \/ \E c \in UserIds, t \in TaskIds : delete_task(c, t)

SpecRemoved == Init /\ [][NextRemoved]_vars

\* every request of user u on task t through the task endpoints is answered 403
task_requests_refused(u, t) ==
    /\ \A d \in TaskUpdates : update_task_response(u, t, d).status = HTTP_403_FORBIDDEN
    /\ \A st \in StatusInputs :
          update_task_status_response(u, t, st).status = HTTP_403_FORBIDDEN
    /\ \A a \in AssigneeInputs : assign_task_response(u, t, a).status = HTTP_403_FORBIDDEN
    /\ delete_task_response(u, t).status = HTTP_403_FORBIDDEN

\* C26: once remove_project_member(P, u) has succeeded, and until u is added to
\* P again, every request of u to update, move, assign or delete a task of P
\* is refused with 403, also when u created the task or is its assignee.
\* Stated for the state the removal leaves, where no request has added u since.
C26_RemovedMemberRefused ==
    Succeeded("remove_project_member") =>
        \A t \in project_tasks(resp.project) : task_requests_refused(resp.user, t)

\* ------------------------------------------------------- the task listings
\* The four endpoints that return tasks, on a project of user 1 whose members
\* come and go.
NextListings ==
    \/ \E d \in ProjectCreates : create_project(1, d)
    \/ \E p \in ProjectIds, u \in UserIds : add_project_member(1, p, u, "member")
    \/ \E p \in ProjectIds, u \in UserIds : remove_project_member(1, p, u)
    \/ \E c \in UserIds, d \in UnassignedTaskCreates : create_task(c, d)
    \/ \E c \in UserIds, q \in TaskQueries : read_tasks(c, q)
    \/ \E c \in UserIds : get_my_tasks(c)
    \/ \E c \in UserIds, p \in ProjectIds : get_project_tasks(c, p)
    \/ \E c \in UserIds, t \in TaskIds : read_task(c, t)

SpecListings == Init /\ [][NextListings]_vars

TaskReadOps == {"read_tasks", "get_my_tasks", "get_project_tasks", "read_task"}

\* C27: no endpoint that reads tasks (GET /tasks with any filters, GET
\* /tasks/my/tasks, GET /tasks/project/{id}, GET /tasks/{id}) returns a task to
\* a caller who has no membership row in the task's project at that time.
C27_TasksGoToMembers ==
    resp.op \in TaskReadOps =>
        \A t \in resp.data.tasks : has_row(tasks[t].project_id, resp.caller)

\* C28: in every reachable state, a task that has an assignee is assigned to a
\* user who holds a membership row in the task's project.
C28_AssigneeIsMember ==
    \A t \in DOMAIN tasks :
        tasks[t].assignee_id # NoId => has_row(tasks[t].project_id, tasks[t].assignee_id)

\* the authorization predicate of the membership operation the request r runs
authorized_now(r) ==
    IF reqs[r].op = "update_member_role"
    THEN get_project_by_id(reqs[r].project) # {} /\
         projects[reqs[r].project].owner_id = reqs[r].caller
    ELSE is_project_admin(reqs[r].project, reqs[r].caller)

MembershipWrites == {"add_project_member", "remove_project_member", "update_member_role"}

\* C29: when requests interleave, no membership addition, removal or role
\* change is committed for a caller who, at the moment of the committing write,
\* no longer satisfies the operation's authorization predicate.
C29_CommitIsAuthorized ==
    [][\A r \in ReqIds :
          (reqs[r].op \in MembershipWrites /\ reqs'[r] = Idle /\ members' # members)
              => authorized_now(r)]_vars

\* ------------------------------------------------- updates on their sessions
\* PUT /tasks/{id} requests, one at a time, each on its own session, on tasks
\* that user 1 created in a project of user 1.
update_task_alone(caller, t, data) ==
    /\ FreeSlots = ReqIds
    /\ update_task_assign(caller, t, data)

NextSessions ==
    \/ \E d \in ProjectCreates : create_project(1, d)
    \/ \E p \in ProjectIds : add_project_member(1, p, 2, "member")
    \/ \E d \in UnassignedTaskCreates : create_task(1, d)
    \/ \E c \in UserIds, t \in TaskIds, d \in SessionTaskUpdates : update_task_alone(c, t, d)
    \/ \E r \in ReqIds : update_task_commit(r)
    \/ \E r \in ReqIds : update_task_raise(r)

SpecSessions == Init /\ [][NextSessions]_vars

\* the request in slot r is a PUT /tasks/{id} that failed
failed_update(r) == reqs[r].op = "update_task" /\ reqs[r].raised # OK

\* C30 (frame): neither the step in which update_task raises nor the end of the
\* failed request changes a stored task
C30_FailureWritesNothing ==
    [][/\ (\E r \in ReqIds : ~failed_update(r) /\ failed_update(r)') => tasks' = tasks
       /\ (\E r \in ReqIds : failed_update(r) /\ reqs'[r] = Idle) => tasks' = tasks]_vars

\* C30 (session): a failed request commits nothing later: the only step left to
\* it is the end of its session, so no successful answer is given from its slot
C30_NoLaterCommit ==
    [][\A r \in ReqIds : failed_update(r) /\ reqs'[r] # reqs[r] =>
          /\ reqs'[r] = Idle
          /\ resp'.status # HTTP_200_OK
          /\ resp'.task = reqs[r].task]_vars

\* C30: an update_task call that fails (caller not authorized, assignee not
\* found, invalid status) leaves every stored field of the task unchanged,
\* including a title supplied validly beside the offending value, and no later
\* commit on the same request session persists them.
C30_FailedUpdateKeepsTask == C30_FailureWritesNothing /\ C30_NoLaterCommit

\* a request with a new title and an invalid status was answered 400, and the
\* stored title is not the one the request carried
C30_Witness ==
    /\ resp.op = "update_task"
    /\ resp.status = HTTP_400_BAD_REQUEST
    /\ resp.detail = "Invalid task status"
    /\ resp.data # NoData
    /\ resp.data.rolled_back.title # NoneStr
    /\ resp.task \in DOMAIN tasks
    /\ tasks[resp.task].title # resp.data.rolled_back.title

====
